---- MODULE Spec2Model ----
(***************************************************************************)
(* A model of epub_to_md.py: the EPUB outline (NCX / nav / spine) is       *)
(* walked depth-first, each outline node's source file is rendered once    *)
(* through the external converter (pandoc) and cached, the node's section  *)
(* is cut out at its anchor, footnote definitions are re-attached, media   *)
(* links are rewritten, converter artifacts are cleaned up, and the        *)
(* result is written to a numbered file.                                   *)
(*                                                                         *)
(* Strings.  A name (title, file name) is a sequence of one-character      *)
(* strings.  A text (markdown content) is the sequence of its segments     *)
(* between "\n" characters, as str.split("\n") gives them: it is never     *)
(* empty, the empty text is <<Blank>>, and a text that ends with a newline *)
(* has Blank as its last segment.  A segment (a line) is a record of what  *)
(* the regular expressions of the program can see in it:                   *)
(*   kind   "text" | "blank" | "fence" (:::) | "span" ([]{#id}) |          *)
(*          "link" ([t](#ref){#id}) | "image" | "rule" (---)               *)
(*   lvl    the number of leading # followed by whitespace (0: no heading) *)
(*   attr   the ids written {#id}                                          *)
(*   dq     the ids written id="id"                                        *)
(*   sq     the ids written id='id'                                        *)
(*   nm     the ids written name="id"                                      *)
(*   refs   the ids referenced by ](#id) or href="#id"                     *)
(*   up     image only: the number of ../ before media/ in its url         *)
(***************************************************************************)
EXTENDS Integers, Sequences, FiniteSets, TLC

VARIABLES
    pc,              \* main's position
    epub,            \* the input: what the archive holds
    toc_file,        \* main: the outline file chosen from the OPF
    toc_structure,   \* main: the outline that is walked
    MARKDOWN_CACHE,  \* src_file -> rendered text
    stack,           \* the pending convert_toc_item calls, next first
    files,           \* the output tree: path -> text written
    calls,           \* src_file -> number of converter invocations
    visited,         \* the convert_toc_item calls made so far, in order
    attempted,       \* the outline strategies tried so far, in order
    printed,         \* the messages printed so far, in order
    arg,             \* function harness: the arguments of the call
    ret,             \* function harness: the value returned
    ret2             \* function harness: the value returned by a second run

vars == <<pc, epub, toc_file, toc_structure, MARKDOWN_CACHE, stack, files,
          calls, visited, attempted, printed, arg, ret, ret2>>

runVars == <<pc, epub, toc_file, toc_structure, MARKDOWN_CACHE, stack, files,
             calls, visited, attempted, printed>>

----------------------------------------------------------------------------
(* Bounds of the model. *)

MaxTitleLen == 2

MaxLines == 3

MaxLevel == 3

MaxNodes == 3

MaxSpine == 2

----------------------------------------------------------------------------
(* Helpers. *)

SeqsUpTo(S, n) == UNION {[1..k -> S] : k \in 0..n}

Range(s) == {s[i] : i \in 1..Len(s)}

Min(S) == CHOOSE x \in S : \A y \in S : x <= y

Take(s, n) == SubSeq(s, 1, IF Len(s) < n THEN Len(s) ELSE n)

Rep(c, n) == [i \in 1..n |-> c]

\* Python's None, as a name and as a scalar
None == <<"None">>

NoAnchor == "None"

----------------------------------------------------------------------------
(* sanitize_name *)

InvalidChars == {"\\", "/", "*", "?", ":", "\"", "<", ">", "|"}

Whitespace == {" ", "\t"}

NameCap == 100

Untitled == <<"U", "n", "t", "i", "t", "l", "e", "d">>

\* re.sub(r'[\\/*?:"<>|]', "", s)
RemoveInvalid(s) == SelectSeq(s, LAMBDA c : c \notin InvalidChars)

\* str.strip()
Strip(s) ==
    LET keep == {i \in 1..Len(s) : s[i] \notin Whitespace}
    IN  IF keep = {} THEN <<>>
        ELSE SubSeq(s, Min(keep), CHOOSE j \in keep : \A k \in keep : k <= j)

sanitize_name_nocap(name) ==
    IF name = None THEN Untitled
    ELSE LET s == Strip(RemoveInvalid(name))
         IN  IF s = <<>> THEN Untitled ELSE s

sanitize_name(name) ==
    IF name = None THEN Untitled
    ELSE LET s == Strip(RemoveInvalid(name))
         IN  IF s = <<>> THEN Untitled ELSE Take(s, NameCap)

----------------------------------------------------------------------------
(* Texts. *)

Ids == {"a", "b"}

Ln(kind, lvl, attr, dq, sq, nm, refs, up) ==
    [kind |-> kind, lvl |-> lvl, attr |-> attr, dq |-> dq, sq |-> sq,
     nm |-> nm, refs |-> refs, up |-> up]

Blank == Ln("blank", 0, {}, {}, {}, {}, {}, 0)

Text == Ln("text", 0, {}, {}, {}, {}, {}, 0)

Fence == Ln("fence", 0, {}, {}, {}, {}, {}, 0)

Rule == Ln("rule", 0, {}, {}, {}, {}, {}, 0)

\* "## Title" and "## Title {#id}"
Heading(l) == Ln("text", l, {}, {}, {}, {}, {}, 0)

HeadingAt(l, id) == Ln("text", l, {id}, {}, {}, {}, {}, 0)

\* '<span id="id">text</span>', "<a id='id'>text</a>", '<a name="id">text</a>'
DefDq(ids) == Ln("text", 0, {}, ids, {}, {}, {}, 0)

DefSq(id) == Ln("text", 0, {}, {}, {id}, {}, {}, 0)

DefNm(id) == Ln("text", 0, {}, {}, {}, {id}, {}, 0)

\* "[]{#id}"
Span(id) == Ln("span", 0, {id}, {}, {}, {}, {}, 0)

\* "see [x](#id)"
Ref(ids) == Ln("text", 0, {}, {}, {}, {}, ids, 0)

\* "[x](#ref){#id}"
Link(id, ref) == Ln("link", 0, {id}, {}, {}, {}, {ref}, 0)

\* "![alt](media/x.png){#id}"
ImageAt(id) == Ln("image", 0, {id}, {}, {}, {}, {}, 0)

\* str.splitlines(): a final newline ends the last line, it starts no new one
splitlines(content) ==
    IF content[Len(content)] = Blank
    THEN SubSeq(content, 1, Len(content) - 1)
    ELSE content

\* "\n".join(lines)
join(lines) == IF lines = <<>> THEN <<Blank>> ELSE lines

\* content.strip() is not empty
HasText(content) == \E i \in 1..Len(content) : content[i].kind # "blank"

----------------------------------------------------------------------------
(* extract_section *)

Window == 20

DefaultLevel == 2

\* one of the four patterns is a substring of the line
MatchesAnchor(line, anchor) ==
    \/ anchor \in line.attr
    \/ anchor \in line.dq
    \/ anchor \in line.sq
    \/ anchor \in line.nm

\* the first loop: the index of the first matching line from i on, 0 if none
RECURSIVE FindStart(_, _, _)
FindStart(lines, anchor, i) ==
    IF i > Len(lines) THEN 0
    ELSE IF MatchesAnchor(lines[i], anchor) THEN i
    ELSE FindStart(lines, anchor, i + 1)

\* the look-forward loop over range(start_idx, min(start_idx + 20, len(lines)))
RECURSIVE LookForward(_, _, _)
LookForward(lines, i, stop) ==
    IF i > stop THEN 0
    ELSE IF lines[i].lvl > 0 THEN lines[i].lvl
    ELSE LookForward(lines, i + 1, stop)

HeaderLevel_unbounded(lines, start) ==
    IF lines[start].lvl > 0 THEN lines[start].lvl
    ELSE LET found == LookForward(lines, start, Len(lines))
         IN  IF found = 0 THEN DefaultLevel ELSE found

HeaderLevel(lines, start) ==
    IF lines[start].lvl > 0 THEN lines[start].lvl
    ELSE LET last == IF start + Window - 1 < Len(lines)
                     THEN start + Window - 1 ELSE Len(lines)
             found == LookForward(lines, start, last)
         IN  IF found = 0 THEN DefaultLevel ELSE found

\* the scan for the next header of the same or a higher level
RECURSIVE FindEnd(_, _, _)
FindEnd(lines, header_level, i) ==
    IF i > Len(lines) THEN Len(lines) + 1
    ELSE IF lines[i].lvl > 0 /\ lines[i].lvl <= header_level THEN i
    ELSE FindEnd(lines, header_level, i + 1)

\* print(f"Warning: Anchor '{anchor}' not found in content.")
AnchorWarning == "Warning: Anchor not found in content."

ExtractWarnings(content, anchor) ==
    IF /\ anchor # NoAnchor
       /\ anchor # ""
       /\ FindStart(splitlines(content), anchor, 1) = 0
    THEN <<AnchorWarning>>
    ELSE <<>>

extract_section_rejoined(content, anchor) ==
    LET lines == splitlines(content)
        start == FindStart(lines, anchor, 1)
    IN  IF anchor = NoAnchor \/ anchor = "" \/ start = 0 THEN join(lines)
        ELSE join(SubSeq(lines, start,
                         FindEnd(lines, HeaderLevel(lines, start), start + 1) - 1))

extract_section(content, anchor) ==
    IF anchor = NoAnchor \/ anchor = "" THEN content
    ELSE LET lines == splitlines(content)
             start == FindStart(lines, anchor, 1)
         IN  IF start = 0 THEN content
             ELSE join(SubSeq(lines, start,
                              FindEnd(lines, HeaderLevel(lines, start), start + 1) - 1))

----------------------------------------------------------------------------
(* append_footnotes *)

\* re.findall over the whole text: ](#id) and href="#id"
ReferencedIds(content) == UNION {content[i].refs : i \in 1..Len(content)}

\* get_ids_in_line: id="ID" and {#ID
get_ids_in_line(line) == line.dq \cup line.attr

\* the scan of full_lines: the last line that defines a referenced id wins
RECURSIVE Definitions(_, _, _)
Definitions(full_lines, referenced_ids, i) ==
    IF i = 0 THEN [id \in {} |-> Blank]
    ELSE LET before == Definitions(full_lines, referenced_ids, i - 1)
             here == get_ids_in_line(full_lines[i]) \cap referenced_ids
         IN  [id \in DOMAIN before \cup here |->
                 IF id \in here THEN full_lines[i] ELSE before[id]]

ExistingIds(section_content) ==
    LET lines == splitlines(section_content)
    IN  UNION {get_ids_in_line(lines[i]) : i \in 1..Len(lines)}

\* the loop over referenced_ids, taken in the order the set iterates
RECURSIVE ToAppend(_, _, _, _)
ToAppend(order, existing, definitions, i) ==
    IF i = 0 THEN <<>>
    ELSE LET before == ToAppend(order, existing, definitions, i - 1)
             ref_id == order[i]
         IN  IF /\ ref_id \notin existing
                /\ ref_id \in DOMAIN definitions
                /\ definitions[ref_id] \notin Range(before)
             THEN Append(before, definitions[ref_id])
             ELSE before

\* the orders in which a set may iterate
Orders(S) == {o \in [1..Cardinality(S) -> S] : Range(o) = S}

append_footnotes_first_wins(section_content, full_content, order) ==
    LET referenced_ids == ReferencedIds(section_content)
        full_lines == splitlines(full_content)
        rev == [i \in 1..Len(full_lines) |-> full_lines[Len(full_lines) + 1 - i]]
        definitions == Definitions(rev, referenced_ids, Len(rev))
        to_append == ToAppend(order, ExistingIds(section_content),
                              definitions, Len(order))
    IN  IF referenced_ids = {} \/ to_append = <<>> THEN section_content
        ELSE section_content \o <<Blank, Rule, Blank>> \o to_append

append_footnotes(section_content, full_content, order) ==
    LET referenced_ids == ReferencedIds(section_content)
        full_lines == splitlines(full_content)
        definitions == Definitions(full_lines, referenced_ids, Len(full_lines))
        to_append == ToAppend(order, ExistingIds(section_content),
                              definitions, Len(order))
    IN  IF referenced_ids = {} \/ to_append = <<>> THEN section_content
        ELSE section_content \o <<Blank, Rule, Blank>> \o to_append

----------------------------------------------------------------------------
(* fix_media_links and cleanup_pandoc_artifacts *)

\* relative_path_to_root is ".." repeated `depth` times, "." for depth 0
fix_media_links(content, depth) ==
    IF depth = 0 THEN content
    ELSE [i \in 1..Len(content) |->
             IF content[i].kind = "image" /\ content[i].up = 0
             THEN [content[i] EXCEPT !.up = depth]
             ELSE content[i]]

CleanLine(line) ==
    CASE line.kind = "link" ->      \* pattern 2: <a href="#ref" id="id">x</a>
             [line EXCEPT !.kind = "text", !.dq = line.attr, !.attr = {}]
      [] line.kind = "image" ->     \* pattern 3: the attribute block goes
             [line EXCEPT !.attr = {}]
      [] line.kind = "span" ->      \* pattern 4: the inner text stays
             Blank
      [] line.kind = "fence" ->     \* pattern 5: the line is emptied
             Blank
      [] line.kind = "text" /\ line.lvl > 0 ->   \* pattern 6
             [line EXCEPT !.attr = {}]
      [] OTHER -> line

cleanup_pandoc_artifacts(content) ==
    [i \in 1..Len(content) |-> CleanLine(content[i])]

----------------------------------------------------------------------------
(* The functions on their own: each specification draws the arguments of   *)
(* one call and makes the call.                                            *)

NotReturned == [done |-> FALSE, val |-> <<>>]

Returned(v) == [done |-> TRUE, val |-> v]

\* no run of main
NoRun ==
    /\ pc = "idle"
    /\ epub = <<>>
    /\ toc_file = ""
    /\ toc_structure = <<>>
    /\ MARKDOWN_CACHE = <<>>
    /\ stack = <<>>
    /\ files = <<>>
    /\ calls = <<>>
    /\ visited = <<>>
    /\ attempted = <<>>
    /\ printed = <<>>

Chars == InvalidChars \cup Whitespace \cup {"a"}

PadLens == {0, NameCap - 1, NameCap, NameCap + 1}

Suffixes == {<<>>, <<" ">>, <<"/">>, <<"b">>}

\* None, and the titles of a few characters, a run of letters and an ending
InitSanitize ==
    /\ NoRun
    /\ \/ arg = [fn |-> "sanitize_name", name |-> None]
       \/ \E p \in SeqsUpTo(Chars, MaxTitleLen), n \in PadLens, e \in Suffixes :
              arg = [fn |-> "sanitize_name", name |-> p \o Rep("a", n) \o e]
    /\ ret = NotReturned
    /\ ret2 = NotReturned

CallSanitize ==
    /\ arg.fn = "sanitize_name"
    /\ ~ret.done
    /\ ret' = Returned(sanitize_name(arg.name))
    /\ UNCHANGED <<runVars, arg, ret2>>

SpecSanitize == InitSanitize /\ [][CallSanitize]_vars

Levels == 1..MaxLevel

SectionLines ==
    {Text, DefDq({"a"}), DefSq("a"), DefNm("a")}
        \cup {Heading(l) : l \in Levels}
        \cup {HeadingAt(l, "a") : l \in Levels}

\* a rendered text: its lines, each ended by a newline
Rendered(lines) == lines \o <<Blank>>

\* the texts of at most MaxLines lines, and those with a long run of plain
\* lines after the first line
InitSection ==
    /\ NoRun
    /\ \E ls \in SeqsUpTo(SectionLines, MaxLines), n \in {0, Window - 2, Window - 1},
          anchor \in {NoAnchor, "", "a"} :
           /\ n = 0 \/ ls # <<>>
           /\ arg = [fn |-> "extract_section",
                     content |-> Rendered(IF n = 0 THEN ls
                                          ELSE <<ls[1]>> \o Rep(Text, n)
                                                   \o SubSeq(ls, 2, Len(ls))),
                     anchor |-> anchor]
    /\ ret = NotReturned
    /\ ret2 = NotReturned

CallExtractSection ==
    /\ arg.fn = "extract_section"
    /\ ~ret.done
    /\ ret' = Returned(extract_section(arg.content, arg.anchor))
    /\ printed' = printed \o ExtractWarnings(arg.content, arg.anchor)
    /\ UNCHANGED <<pc, epub, toc_file, toc_structure, MARKDOWN_CACHE, stack,
                   files, calls, visited, attempted, arg, ret2>>

SpecSection == InitSection /\ [][CallExtractSection]_vars

FootLines ==
    {Text, Ref({"a"}), Ref({"b"}), Ref({"a", "b"}),
     DefDq({"a"}), HeadingAt(2, "a"), DefDq({"b"}), DefDq({"a", "b"})}

\* the full text and the section convert_toc_item passes: the full text
\* itself or some of its lines, rejoined
InitFootnotes ==
    /\ NoRun
    /\ \E ls \in SeqsUpTo(FootLines, MaxLines) :
           \E i, j \in 0..Len(ls) :
               arg = [fn |-> "append_footnotes",
                      full |-> Rendered(ls),
                      section |-> IF i = 0 \/ j = 0 THEN Rendered(ls)
                                  ELSE join(SubSeq(ls, i, j))]
    /\ ret = NotReturned
    /\ ret2 = NotReturned

\* one run
CallAppendFootnotes ==
    /\ arg.fn = "append_footnotes"
    /\ ~ret.done
    /\ \E order \in Orders(ReferencedIds(arg.section)) :
           ret' = Returned(append_footnotes(arg.section, arg.full, order))
    /\ UNCHANGED <<runVars, arg, ret2>>

\* another run on the same input
CallAppendFootnotesAgain ==
    /\ arg.fn = "append_footnotes"
    /\ ret.done
    /\ ~ret2.done
    /\ \E order \in Orders(ReferencedIds(arg.section)) :
           ret2' = Returned(append_footnotes(arg.section, arg.full, order))
    /\ UNCHANGED <<runVars, arg, ret>>

NextFootnotes == CallAppendFootnotes \/ CallAppendFootnotesAgain

SpecFootnotes == InitFootnotes /\ [][NextFootnotes]_vars

----------------------------------------------------------------------------
(* The run of main: the input. *)

NoSrc == [file |-> "", anchor |-> NoAnchor]

Src(file, anchor) == [file |-> file, anchor |-> anchor]

TitleA == <<"A", "/">>

\* what an outline node may be: its title and its src
Labels ==
    {[title |-> None, src |-> NoSrc],
     [title |-> TitleA, src |-> NoSrc],
     [title |-> TitleA, src |-> Src("ch1.xhtml", NoAnchor)],
     [title |-> TitleA, src |-> Src("ch1.xhtml", "a")],
     [title |-> TitleA, src |-> Src("bad.xhtml", "a")],
     [title |-> TitleA, src |-> Src("gone.xhtml", NoAnchor)],
     [title |-> TitleA, src |-> Src("void.xhtml", NoAnchor)]}

Item(label, children) ==
    [title |-> label.title, src |-> label.src, children |-> children]

\* the outlines of exactly n nodes
RECURSIVE Forest(_)
Forest(n) ==
    IF n = 0 THEN {<<>>}
    ELSE LET sub == [k \in 0..(n - 1) |-> Forest(k)]
         IN  UNION {{<<Item(l, c)>> \o rest :
                        l \in Labels, c \in sub[k], rest \in sub[n - 1 - k]}
                    : k \in 0..(n - 1)}

\* the content files of the archive: ch1.xhtml and void.xhtml convert,
\* bad.xhtml makes the converter fail, gone.xhtml is not in the archive
SourceFiles == {"ch1.xhtml", "void.xhtml", "bad.xhtml", "gone.xhtml"}

SourceExists(src_file) == src_file # "gone.xhtml"

ConverterOutcomes(src_file) ==
    IF src_file = "bad.xhtml" THEN {"nonzero", "raise"} ELSE {"ok"}

ConverterOutput(src_file) ==
    IF src_file = "ch1.xhtml"
    THEN Rendered(<<Heading(1), HeadingAt(2, "a"), Link("r1", "n1"), ImageAt("f"),
                    Heading(2), DefDq({"n1"})>>)
    ELSE Rendered(<<Fence, Span("v"), Fence>>)

NoHref == ""

\* the reading order: per itemref the href its idref resolves to, or NoHref
SpineEntries == {"ch1.xhtml", "gone.xhtml", NoHref}

Epub(setup, spineToc, navHref, ncx, ncxError, nav, hasSpine, spine) ==
    [setup |-> setup, spineToc |-> spineToc, navHref |-> navHref, ncx |-> ncx,
     ncxError |-> ncxError, nav |-> nav, hasSpine |-> hasSpine, spine |-> spine]

SmallOutline == <<Item([title |-> TitleA, src |-> Src("ch1.xhtml", "a")], <<>>)>>

\* the archives main is run on
IsInput(e) ==
    \* the archive cannot be opened, or holds no OPF
    \/ \E su \in {"missing", "badzip", "nocontainer", "norootfile", "badopf"} :
           e = Epub(su, NoHref, NoHref, <<>>, FALSE, <<>>, FALSE, <<>>)
    \* the NCX yields an outline
    \/ \E n \in 1..MaxNodes : \E o \in Forest(n) :
           e = Epub("ok", "toc.ncx", NoHref, o, FALSE, <<>>, TRUE, <<>>)
    \* there is no NCX and the nav document yields an outline
    \/ \E o \in Forest(1) :
           e = Epub("ok", NoHref, "nav.xhtml", <<>>, FALSE, o, TRUE, <<>>)
    \* the outline chosen yields nothing
    \/ \E st \in {NoHref, "toc.ncx"}, nh \in {NoHref, "nav.xhtml"},
          err \in BOOLEAN, sp \in SeqsUpTo(SpineEntries, MaxSpine) :
           \E nav \in IF st = "toc.ncx" /\ nh = "nav.xhtml"
                      THEN {<<>>, SmallOutline} ELSE {<<>>} :
               \/ e = Epub("ok", st, nh, <<>>, err, nav, TRUE, sp)
               \/ sp = <<>> /\ e = Epub("ok", st, nh, <<>>, err, nav, FALSE, sp)

----------------------------------------------------------------------------
(* The run of main: the state and the steps. *)

Digits == <<"0", "1", "2", "3", "4", "5", "6", "7", "8", "9">>

RECURSIVE Decimal(_)
Decimal(n) ==
    IF n < 10 THEN <<Digits[n + 1]>>
    ELSE Decimal(n \div 10) \o <<Digits[(n % 10) + 1]>>

\* f"{index:02d}"
Prefix(index) == IF index < 10 THEN <<"0">> \o Decimal(index) ELSE Decimal(index)

Ext == <<".", "m", "d">>

SectionTitle(k) == <<"S", "e", "c", "t", "i", "o", "n", " ">> \o Decimal(k)

\* a call of convert_toc_item waiting to be made; id is the node's place in
\* the outline, the indices from the top
Frame(item, output_base, index, id) ==
    [item |-> item, output_base |-> output_base, index |-> index, id |-> id]

\* for i, item in enumerate(items): convert_toc_item(item, base, i+1, ...)
Frames(items, output_base, parent) ==
    [i \in 1..Len(items) |-> Frame(items[i], output_base, i, Append(parent, i))]

Put(f, k, v) == [x \in DOMAIN f \cup {k} |-> IF x = k THEN v ELSE f[x]]

EmptyText == <<Blank>>

Init ==
    /\ pc = "start"
    /\ IsInput(epub)
    /\ toc_file = NoHref
    /\ toc_structure = <<>>
    /\ MARKDOWN_CACHE = <<>>
    /\ stack = <<>>
    /\ files = <<>>
    /\ calls = [f \in SourceFiles |-> 0]
    /\ visited = <<>>
    /\ attempted = <<>>
    /\ printed = <<>>
    /\ arg = [fn |-> "main"]
    /\ ret = NotReturned
    /\ ret2 = NotReturned

\* main, lines 419-458: open the archive and find the OPF
MainOpen ==
    /\ pc = "start"
    /\ pc' = CASE epub.setup = "ok" -> "locate"
               [] epub.setup = "badopf" -> "raised"
               [] OTHER -> "returned"
    /\ printed' =
          CASE epub.setup = "missing" -> <<"File not found">>
            [] epub.setup = "badzip" -> <<"Processing", "Error: Invalid EPUB file.">>
            [] epub.setup = "nocontainer" ->
                   <<"Processing", "Invalid EPUB: META-INF/container.xml missing">>
            [] epub.setup = "norootfile" -> <<"Processing", "Could not find OPF path">>
            [] OTHER -> <<"Processing">>
    /\ UNCHANGED <<epub, toc_file, toc_structure, MARKDOWN_CACHE, stack, files,
                   calls, visited, attempted, arg, ret, ret2>>

\* main, lines 460-491: choose the outline file, make the output directory
MainLocateToc ==
    /\ pc = "locate"
    /\ toc_file' = IF epub.spineToc # NoHref THEN epub.spineToc ELSE epub.navHref
    /\ IF toc_file' = NoHref
       THEN /\ printed' = Append(printed, "Could not find TOC file in OPF.")
            /\ pc' = "returned"
       ELSE /\ printed' = printed
            /\ pc' = "parse"
    /\ UNCHANGED <<epub, toc_structure, MARKDOWN_CACHE, stack, files, calls,
                   visited, attempted, arg, ret, ret2>>

IsNcx(href) == href = "toc.ncx"

\* main, lines 493-526: parse the outline file by its kind
MainParseToc ==
    /\ pc = "parse"
    /\ IF IsNcx(toc_file)
       THEN /\ attempted' = Append(attempted, "ncx")
            /\ toc_structure' = epub.ncx
            /\ printed' = IF epub.ncxError
                          THEN Append(printed, "Error parsing NCX")
                          ELSE printed
       ELSE /\ attempted' = Append(attempted, "nav")
            /\ toc_structure' = epub.nav
            /\ printed' = printed
    /\ IF toc_structure' # <<>>
       THEN /\ stack' = Frames(toc_structure', <<>>, <<>>)
            /\ pc' = "walk"
       ELSE /\ stack' = stack
            /\ pc' = "fallback"
    /\ UNCHANGED <<epub, toc_file, MARKDOWN_CACHE, files, calls, visited,
                   arg, ret, ret2>>

\* lines 541-548: one item per itemref whose idref resolves
RECURSIVE SpineItems(_, _)
SpineItems(spine, i) ==
    IF i = 0 THEN <<>>
    ELSE LET before == SpineItems(spine, i - 1)
         IN  IF spine[i] = NoHref THEN before
             ELSE Append(before,
                         [title |-> SectionTitle(Len(before) + 1),
                          src |-> Src(spine[i], NoAnchor),
                          children |-> <<>>])

\* main, lines 530-557: the linear structure of the spine
MainFallback ==
    /\ pc = "fallback"
    /\ attempted' = Append(attempted, "spine")
    /\ LET spine_items == SpineItems(epub.spine, Len(epub.spine))
           notice == "No TOC structure found in NCX/Nav. Falling back to Spine"
       IN  IF ~epub.hasSpine
           THEN /\ printed' = printed \o <<notice, "Error: No Spine found.">>
                /\ stack' = stack
                /\ pc' = "returned"
           ELSE IF spine_items = <<>>
           THEN /\ printed' = printed \o <<notice, "Error: No Spine items found.">>
                /\ stack' = stack
                /\ pc' = "returned"
           ELSE /\ printed' = Append(printed, notice)
                /\ stack' = Frames(spine_items, <<>>, <<>>)
                /\ pc' = "walk"
    /\ UNCHANGED <<epub, toc_file, toc_structure, MARKDOWN_CACHE, files, calls,
                   visited, arg, ret, ret2>>

----------------------------------------------------------------------------
(* convert_toc_item *)

\* what one call of get_markdown_content may do: the text it returns, the
\* cache it leaves, whether it ran the converter, and what it printed
Outcome(content, cache, status, invoked, msgs) ==
    [content |-> content, cache |-> cache, status |-> status,
     invoked |-> invoked, msgs |-> msgs]

get_markdown_content_unchecked(src_file, cache) ==
    IF src_file \in DOMAIN cache
    THEN {Outcome(cache[src_file], cache, "cached", 0, <<>>)}
    ELSE IF ~SourceExists(src_file)
    THEN {Outcome(EmptyText, cache, "missing", 0, <<"Warning: Source file not found">>)}
    ELSE {IF o = "raise"
          THEN Outcome(EmptyText, cache, o, 1, <<"Exception converting">>)
          ELSE Outcome(ConverterOutput(src_file),
                       Put(cache, src_file, ConverterOutput(src_file)), o, 1, <<>>)
          : o \in ConverterOutcomes(src_file)}

get_markdown_content(src_file, cache) ==
    IF src_file \in DOMAIN cache
    THEN {Outcome(cache[src_file], cache, "cached", 0, <<>>)}
    ELSE IF ~SourceExists(src_file)
    THEN {Outcome(EmptyText, cache, "missing", 0, <<"Warning: Source file not found">>)}
    ELSE {CASE o = "nonzero" ->
                   Outcome(EmptyText, cache, o, 1, <<"Error converting">>)
            [] o = "raise" ->
                   Outcome(EmptyText, cache, o, 1, <<"Exception converting">>)
            [] OTHER ->
                   Outcome(ConverterOutput(src_file),
                           Put(cache, src_file, ConverterOutput(src_file)), o, 1, <<>>)
          : o \in ConverterOutcomes(src_file)}

\* lines 372-380: the directory of the node and the file of its own text
CurrentDir(item, output_base, index) ==
    IF Len(item.children) > 0
    THEN Append(output_base, Prefix(index) \o <<"_">> \o sanitize_name(item.title))
    ELSE output_base

OutputPath_zero_based(item, output_base, index) ==
    IF Len(item.children) > 0
    THEN Append(CurrentDir(item, output_base, index),
                <<"0", "0", "_">> \o sanitize_name(item.title) \o Ext)
    ELSE Append(output_base,
                Prefix(index - 1) \o <<"_">> \o sanitize_name(item.title) \o Ext)

\* a variant that names a leaf by its title alone
OutputPath_unprefixed(item, output_base, index) ==
    IF Len(item.children) > 0
    THEN Append(CurrentDir(item, output_base, index),
                <<"0", "0", "_">> \o sanitize_name(item.title) \o Ext)
    ELSE Append(output_base, sanitize_name(item.title) \o Ext)

OutputPath(item, output_base, index) ==
    IF Len(item.children) > 0
    THEN Append(CurrentDir(item, output_base, index),
                <<"0", "0", "_">> \o sanitize_name(item.title) \o Ext)
    ELSE Append(output_base,
                Prefix(index) \o <<"_">> \o sanitize_name(item.title) \o Ext)

Truthy(anchor) == anchor # NoAnchor /\ anchor # ""

\* lines 395-398
Sectioned(content, anchor) ==
    IF Truthy(anchor) THEN extract_section(content, anchor) ELSE content

\* a variant that looks for the definitions in the excerpt alone
Finished_excerpt_only(section, content, order, depth) ==
    cleanup_pandoc_artifacts(
        fix_media_links(append_footnotes(section, section, order), depth))

\* lines 401-408; file_dir lies `depth` directories below the output root
Finished(section, content, order, depth) ==
    cleanup_pandoc_artifacts(
        fix_media_links(append_footnotes(section, content, order), depth))

Visit(fr, status, content, final, written) ==
    [id |-> fr.id, title |-> fr.item.title, src |-> fr.item.src,
     has_children |-> Len(fr.item.children) > 0,
     current_dir |-> CurrentDir(fr.item, fr.output_base, fr.index),
     output_path |-> OutputPath(fr.item, fr.output_base, fr.index),
     status |-> status, content |-> content, final |-> final,
     written |-> written]

\* one call of convert_toc_item; its recursive calls are left on the stack
ConvertTocItem ==
    /\ pc = "walk"
    /\ stack # <<>>
    /\ LET fr == Head(stack)
           item == fr.item
           current_dir == CurrentDir(item, fr.output_base, fr.index)
           output_path == OutputPath(item, fr.output_base, fr.index)
           rest == Frames(item.children, current_dir, fr.id) \o Tail(stack)
       IN  IF item.src = NoSrc
           THEN /\ visited' = Append(visited, Visit(fr, "none", EmptyText, EmptyText, <<>>))
                /\ stack' = rest
                /\ UNCHANGED <<MARKDOWN_CACHE, files, calls, printed>>
           ELSE \E got \in get_markdown_content(item.src.file, MARKDOWN_CACHE) :
                  LET section == Sectioned(got.content, item.src.anchor)
                      warn == IF Truthy(item.src.anchor)
                              THEN ExtractWarnings(got.content, item.src.anchor)
                              ELSE <<>>
                  IN  \E order \in Orders(ReferencedIds(section)) :
                        LET final == Finished(section, got.content, order,
                                              Len(current_dir))
                            written == IF HasText(final) THEN <<output_path>> ELSE <<>>
                        IN  /\ MARKDOWN_CACHE' = got.cache
                            /\ calls' = [calls EXCEPT ![item.src.file] = @ + got.invoked]
                            /\ printed' = printed \o got.msgs \o warn
                            /\ files' = IF HasText(final)
                                        THEN Put(files, output_path, final)
                                        ELSE files
                            /\ visited' = Append(visited,
                                   Visit(fr, got.status, got.content, final, written))
                            /\ stack' = rest
    /\ UNCHANGED <<pc, epub, toc_file, toc_structure, attempted, arg, ret, ret2>>

\* main, lines 529 and 553: every top-level item has been converted
MainSuccess ==
    /\ pc = "walk"
    /\ stack = <<>>
    /\ printed' = Append(printed, "Success! Output directory")
    /\ pc' = "returned"
    /\ UNCHANGED <<epub, toc_file, toc_structure, MARKDOWN_CACHE, stack, files,
                   calls, visited, attempted, arg, ret, ret2>>

Next ==
    \/ MainOpen
    \/ MainLocateToc
    \/ MainParseToc
    \/ MainFallback
    \/ ConvertTocItem
    \/ MainSuccess

Spec == Init /\ [][Next]_vars

----------------------------------------------------------------------------
(* Properties of the functions. *)

\* C10: sanitize_name returns, for every title and for None, a name that is
\* not empty, has at most 100 characters and none of \ / * ? : " < > |, and
\* returns "Untitled" for None and for a title that has nothing but those
\* characters and whitespace.
C10_SanitizedName ==
    (arg.fn = "sanitize_name" /\ ret.done) =>
        /\ Len(ret.val) >= 1
        /\ Len(ret.val) <= 100
        /\ \A i \in 1..Len(ret.val) :
               ret.val[i] \notin {"\\", "/", "*", "?", ":", "\"", "<", ">", "|"}
        /\ (\/ arg.name = None
            \/ \A i \in 1..Len(arg.name) :
                   arg.name[i] \in InvalidChars \cup Whitespace)
               => ret.val = Untitled

\* a title longer than the cap, with characters to remove, has been cut
C10_Witness ==
    /\ arg.fn = "sanitize_name"
    /\ ret.done
    /\ arg.name # None
    /\ Len(arg.name) > NameCap + 1
    /\ \E i \in 1..Len(arg.name) : arg.name[i] \in InvalidChars
    /\ Len(ret.val) = NameCap

\* the line holds {#id}, id="id", id='id' or name="id"
EncodesId(line, id) == id \in line.attr \cup line.dq \cup line.sq \cup line.nm

IsHeading(line) == line.lvl > 0

\* C6: when some line matches the anchor, extract_section returns the lines
\* from the first matching line up to, and without, the first later heading
\* whose level is at most the owning level (to the end if there is none);
\* the owning level is the matched line's level if it is a heading, else
\* that of the next heading within the window, else 2.
C6_SectionSlice ==
    LET lines == splitlines(arg.content)
        M == {i \in 1..Len(lines) : EncodesId(lines[i], arg.anchor)}
    IN  (/\ arg.fn = "extract_section"
         /\ ret.done
         /\ arg.anchor \notin {NoAnchor, ""}
         /\ M # {}) =>
            LET s == Min(M)
                W == {i \in s..(s + 19) : i <= Len(lines) /\ IsHeading(lines[i])}
                own == IF IsHeading(lines[s]) THEN lines[s].lvl
                       ELSE IF W # {} THEN lines[Min(W)].lvl
                       ELSE 2
                E == {i \in (s + 1)..Len(lines) :
                          IsHeading(lines[i]) /\ lines[i].lvl <= own}
                e == IF E = {} THEN Len(lines) + 1 ELSE Min(E)
            IN  ret.val = SubSeq(lines, s, e - 1)

\* the anchor is on a line that is no heading, the next heading is the last
\* line of the window and deeper than level 2, and the section ends at a
\* later heading before the end of the text
C6_Witness ==
    LET lines == splitlines(arg.content)
    IN  /\ arg.fn = "extract_section"
        /\ ret.done
        /\ arg.anchor = "a"
        /\ Len(lines) > Window
        /\ EncodesId(lines[1], "a")
        /\ ~IsHeading(lines[1])
        /\ \A i \in 2..(Window - 1) : ~IsHeading(lines[i])
        /\ lines[Window].lvl = 3
        /\ Len(ret.val) = Window - 1
        /\ Len(lines) > Window

\* C7: extract_section returns its input unchanged when the anchor is None
\* or empty, and when no line holds an encoding of it; in the second case it
\* prints a warning.
C7_NoAnchorUnchanged ==
    LET lines == splitlines(arg.content)
        absent == arg.anchor \in {NoAnchor, ""}
        nomatch == \A i \in 1..Len(lines) : ~EncodesId(lines[i], arg.anchor)
    IN  (arg.fn = "extract_section" /\ ret.done) =>
            /\ (absent \/ nomatch) => ret.val = arg.content
            /\ (~absent /\ nomatch) => printed = <<AnchorWarning>>
            /\ absent => printed = <<>>

\* a text of several lines in which no line holds the anchor
C7_Witness ==
    /\ arg.fn = "extract_section"
    /\ ret.done
    /\ arg.anchor = "a"
    /\ Len(arg.content) > 2
    /\ \E i \in 1..Len(arg.content) : IsHeading(arg.content[i])
    /\ \A i \in 1..Len(arg.content) : ~EncodesId(arg.content[i], "a")
    /\ printed # <<>>

\* the lines of the text that define the id with id="id" or {#id}
DefiningLines(content, id) ==
    {i \in 1..Len(content) : id \in content[i].dq \cup content[i].attr}

\* the ids a section uses, does not define, and the full text defines
Unresolved(section, full) ==
    {id \in UNION {section[i].refs : i \in 1..Len(section)} :
        /\ DefiningLines(section, id) = {}
        /\ DefiningLines(full, id) # {}}

LastDefinition(full, id) ==
    full[CHOOSE i \in DefiningLines(full, id) :
             \A j \in DefiningLines(full, id) : j <= i]

C2_SameOutputTwice ==
    (arg.fn = "append_footnotes" /\ ret.done /\ ret2.done) => ret.val = ret2.val

----------------------------------------------------------------------------
(* Properties of the run. *)

\* the outline that is walked: the one parsed, or the items of the spine
Walked ==
    IF toc_structure # <<>> THEN toc_structure
    ELSE SpineItems(epub.spine, Len(epub.spine))

VisitedIds == [k \in 1..Len(visited) |-> visited[k].id]

\* the places of the nodes of an outline, depth first, parents first
RECURSIVE Preorder(_, _, _)
Preorder(items, parent, i) ==
    IF i > Len(items) THEN <<>>
    ELSE <<Append(parent, i)>>
            \o Preorder(items[i].children, Append(parent, i), 1)
            \o Preorder(items, parent, i + 1)

TwoDigits(i) == <<Digits[(i \div 10) + 1], Digits[(i % 10) + 1]>>

\* the naming rule: NN_<title>.md for a leaf, NN_<title>/00_<title>.md for
\* a branch, below the directories NN_<title> of the nodes above
RECURSIVE RulePath(_, _)
RulePath(items, id) ==
    LET node == items[id[1]]
        safe == sanitize_name(node.title)
        numbered == TwoDigits(id[1]) \o <<"_">> \o safe
    IN  IF Len(id) > 1 THEN <<numbered>> \o RulePath(node.children, Tail(id))
        ELSE IF node.children = <<>> THEN <<numbered \o <<".", "m", "d">>>>
        ELSE <<numbered, <<"0", "0", "_">> \o safe \o <<".", "m", "d">>>>

Failed(v) == v.status \in {"missing", "nonzero", "raise"}

\* C1: for every source file passed to get_markdown_content the converter
\* has been invoked exactly once, however many nodes name the file and
\* whether or not the conversion succeeds (a file that is not in the archive
\* cannot be converted: for it, at most once).
C1_RenderedOnce ==
    \A f \in SourceFiles :
        (\E k \in 1..Len(visited) : visited[k].src.file = f) =>
            IF SourceExists(f) THEN calls[f] = 1 ELSE calls[f] <= 1

\* C3, as claimed: every node with a target whose rendered content is not
\* empty has written exactly one file, at the path of the naming rule.
C3_FilePerRenderedNode ==
    \A k \in 1..Len(visited) :
        (visited[k].src # NoSrc /\ visited[k].content # EmptyText) =>
            /\ visited[k].written = <<RulePath(Walked, visited[k].id)>>
            /\ RulePath(Walked, visited[k].id) \in DOMAIN files

\* C3, amended: every node with a target whose final text is not empty after
\* trimming has written exactly one file, at the path of the naming rule,
\* and a node whose final text is empty after trimming has written none.
C3_FilePerNonEmptyNode ==
    \A k \in 1..Len(visited) :
        visited[k].src # NoSrc =>
            IF \E i \in 1..Len(visited[k].final) : visited[k].final[i].kind # "blank"
            THEN /\ visited[k].written = <<RulePath(Walked, visited[k].id)>>
                 /\ RulePath(Walked, visited[k].id) \in DOMAIN files
            ELSE visited[k].written = <<>>

\* a branch and its child have written their files, and a node whose
\* rendered content is not empty has written none
C3_Witness ==
    /\ \E k \in 1..Len(visited) :
           /\ visited[k].has_children
           /\ visited[k].written # <<>>
    /\ \E k \in 1..Len(visited) :
           /\ Len(visited[k].id) = 2
           /\ visited[k].written # <<>>
    /\ \E k \in 1..Len(visited) :
           /\ visited[k].content # EmptyText
           /\ visited[k].written = <<>>

\* C4: when the manifest holds a nav document, the linear fallback is used
\* only after the nav strategy has been tried.
C4_NavTriedBeforeSpine ==
    ("spine" \in Range(attempted) /\ epub.navHref # NoHref) =>
        "nav" \in Range(attempted)

\* the entries of the reading order that name a content file
Resolved(spine) == SelectSeq(spine, LAMBDA h : h # NoHref)

\* C5: when the manifest names no outline source, or the outline sources
\* yield no nodes, the run ends having converted one node per entry of the
\* reading order, in order, the k-th titled "Section k", none nested.
C5_LinearFallback ==
    (/\ pc = "returned"
     /\ epub.setup = "ok"
     /\ \/ epub.spineToc = NoHref /\ epub.navHref = NoHref
        \/ epub.ncx = <<>> /\ epub.nav = <<>>) =>
        /\ Len(visited) = Len(Resolved(epub.spine))
        /\ \A k \in 1..Len(visited) :
               /\ visited[k].id = <<k>>
               /\ visited[k].title = <<"S", "e", "c", "t", "i", "o", "n", " ">>
                                        \o <<Digits[k + 1]>>
               /\ visited[k].src = Src(Resolved(epub.spine)[k], NoAnchor)
               /\ ~visited[k].has_children

\* C9: a node whose rendering failed got the empty text and wrote no file,
\* the failure ends nothing, and the run ends having converted every node of
\* the outline, the children of the failed node and its later siblings too.
C9_FailureNotFatal ==
    /\ \A k \in 1..Len(visited) :
           Failed(visited[k]) =>
               /\ visited[k].content = <<Blank>>
               /\ visited[k].written = <<>>
               /\ visited[k].output_path \notin DOMAIN files
                    \/ \E j \in 1..Len(visited) :
                           j # k /\ visited[j].written = <<visited[k].output_path>>
    /\ visited # <<>> => pc \in {"walk", "returned"}
    /\ (pc = "returned" /\ visited # <<>>) =>
           /\ VisitedIds = Preorder(Walked, <<>>, 1)
           /\ printed[Len(printed)] = "Success! Output directory"

\* the converter failed for the first node, and its child and its later
\* sibling have been converted and have written their files
C9_Witness ==
    /\ pc = "returned"
    /\ Len(visited) = 3
    /\ visited[1].status \in {"nonzero", "raise"}
    /\ visited[2].id = <<1, 1>>
    /\ visited[2].written # <<>>
    /\ visited[3].id = <<2>>
    /\ visited[3].written # <<>>

\* lines 563-567: the status the process ends with; main returning ends
\* the script with status 0, an exception that leaves main ends it with 1
ExitStatus == IF pc = "raised" THEN 1 ELSE 0

Ended == pc \in {"returned", "raised"}

SuccessLine == "Success! Output directory"

\* the archive is missing or unreadable, the container or the OPF is
\* missing, or no outline strategy gave a node
FatalSetupError ==
    \/ epub.setup # "ok"
    \/ Ended /\ visited = <<>>

\* C11: a run that met a fatal setup error ends with an error message and a
\* status other than zero, and a run that ends with status zero has printed
\* the success line.
C11_FatalExitsNonZero ==
    Ended =>
        /\ FatalSetupError => ExitStatus # 0
        /\ ExitStatus = 0 => SuccessLine \in Range(printed)

\* the place of the node above the node at place id
ParentId(id) == SubSeq(id, 1, Len(id) - 1)

\* the text the claimed order of steps gives for a visited node: segment the
\* rendered text, reconcile against the rendered text, rewrite the media
\* links, normalize
InClaimedOrder(v, order) ==
    LET rendered == v.content
        segmented == IF Truthy(v.src.anchor)
                     THEN extract_section(rendered, v.src.anchor)
                     ELSE rendered
        reconciled == append_footnotes(segmented, rendered, order)
        rewritten == fix_media_links(reconciled, Len(v.current_dir))
    IN  cleanup_pandoc_artifacts(rewritten)

\* C12: for every node with a target the final text is the result of render,
\* segment, reconcile against the full rendered text, rewrite-media-links and
\* normalize, each applied to the result of the step before; the file that
\* is written holds that final text; and while a child of a node waits to be
\* processed, the node has been processed and its file, if any, is written.
C12_StepsInOrder ==
    /\ \A k \in 1..Len(visited) :
         LET v == visited[k]
         IN  v.src # NoSrc =>
               /\ \E order \in Orders(ReferencedIds(Sectioned(v.content, v.src.anchor))) :
                     v.final = InClaimedOrder(v, order)
               /\ v.written # <<>> =>
                     /\ v.output_path \in DOMAIN files
                     /\ files[v.output_path] = v.final
    /\ \A n \in 1..Len(stack) :
         Len(stack[n].id) > 1 =>
             \E k \in 1..Len(visited) :
                 /\ visited[k].id = ParentId(stack[n].id)
                 /\ \A w \in Range(visited[k].written) : w \in DOMAIN files

\* a branch cut out of ch1.xhtml at its anchor got a definition from outside
\* the excerpt, wrote its file, and its child is still waiting
C12_Witness ==
    /\ pc = "walk"
    /\ Len(visited) = 1
    /\ visited[1].src = Src("ch1.xhtml", "a")
    /\ Len(visited[1].final) >
           Len(extract_section(visited[1].content, "a"))
    /\ visited[1].written # <<>>
    /\ files[visited[1].output_path] = visited[1].final
    /\ stack # <<>>
    /\ Head(stack).id = <<1, 1>>

\* C13: no two nodes of the outline get the same output file or the same
\* branch directory, no output file is a branch directory, and the 00_ file
\* of a branch is neither the file nor the directory of one of its children.
C13_NoCollisions ==
    \A j, k \in 1..Len(visited) :
        j # k =>
            /\ visited[j].id # visited[k].id
            /\ visited[j].output_path # visited[k].output_path
            /\ visited[j].has_children /\ visited[k].has_children =>
                   visited[j].current_dir # visited[k].current_dir
            /\ visited[k].has_children =>
                   visited[j].output_path # visited[k].current_dir
            /\ visited[j].has_children /\ ParentId(visited[k].id) = visited[j].id =>
                   /\ visited[j].output_path # visited[k].output_path
                   /\ visited[j].output_path # visited[k].current_dir

\* a branch and its two children all carry the same title
C13_Witness ==
    /\ pc = "returned"
    /\ Len(visited) = 3
    /\ visited[1].has_children
    /\ visited[2].id = <<1, 1>>
    /\ visited[3].id = <<1, 2>>
    /\ \A k \in 1..3 : visited[k].title = TitleA

====
